---- MODULE Spec2Model ----
(***************************************************************************)
(* Model of the asynchronous image-edit job contract:                      *)
(*   - the worker-side handler   (src/serverless/handler.py)               *)
(*   - the client / status poller (src/serverless/test_endpoint.py)        *)
(*                                                                         *)
(* JSON numbers are kept in units of one half (2 * value), so that a       *)
(* non-integral number such as 1.5 is representable and int() really       *)
(* truncates:  3 stands for 1.5,  int(1.5) = 1 is the half-value 2.        *)
(***************************************************************************)
EXTENDS Integers, Sequences, FiniteSets

\* ------------------------------------------------------------------ bounds
MaxImages == 2      \* longest "images" list explored
MaxDraws == 2       \* engine calls explored per worker process
MaxTimeout == 7     \* longest poll timeout explored (seconds)
MaxLatency == 1     \* longest duration of one status request (seconds)

\* --------------------------------------------------------------- constants
DefaultSteps == 40
DefaultCfgScale == 4
DefaultSeed == -1
DefaultNumImages == 1
SleepSeconds == 3
DefaultTimeout == 600

VARIABLES
    \* worker process (handler.py)
    wpc,        \* "idle": waiting for a job, "done": handler has ended
    job,        \* the job["input"] payload being handled
    result,     \* how handler ended: a returned dict or a raised exception
    call,       \* the arguments of the pipeline(...) call, if it was made
    rng,        \* torch's process-global default random generator
    \* client process (test_endpoint.py)
    cpc, submits, jobs, status, output, timeout, now, start, checks,
    lastStatus, ret, exit, printed

wvars == <<wpc, job, result, call, rng>>
cvars == <<cpc, submits, jobs, status, output, timeout, now, start, checks,
           lastStatus, ret, exit, printed>>
vars == <<wpc, job, result, call, rng,
          cpc, submits, jobs, status, output, timeout, now, start, checks,
          lastStatus, ret, exit, printed>>

\* ------------------------------------------------------------ raw payloads
Absent == "<absent>"                 \* the key is not in the dict
GoodBlob == "b64(png)"               \* base64 text of a readable image
BadBlob == "not-base64"              \* text that does not decode to an image
Blobs == {GoodBlob, BadBlob}

\* a JSON value given for a numeric key
NoValue == [kind |-> "absent", v2 |-> 0]
Text == [kind |-> "text", v2 |-> 0]          \* e.g. "abc": not a number
Num2(h) == [kind |-> "number", v2 |-> h]     \* the number h/2

SeqsUpTo(S, n) == UNION {[1..k -> S] : k \in 0..n}

ImagesValues ==
    {[kind |-> "absent", items |-> <<>>], [kind |-> "nonlist", items |-> <<>>]}
    \cup {[kind |-> "list", items |-> s] : s \in SeqsUpTo(Blobs, MaxImages)}
ImageValues == {Absent, GoodBlob, BadBlob}
PromptValues == {Absent, "", "  ", "make the sky purple"}
StepsValues == {NoValue, Num2(0), Text}
CfgValues == {NoValue, Num2(0), Text}
SeedValues == {NoValue, Num2(0), Num2(7), Text}
NumImagesValues == {NoValue, Num2(3), Num2(4), Text}

Payloads ==
    [images : ImagesValues, image : ImageValues, prompt : PromptValues,
     num_inference_steps : StepsValues, true_cfg_scale : CfgValues,
     seed : SeedValues, num_images_per_prompt : NumImagesValues]

NoJob == [images |-> [kind |-> "absent", items |-> <<>>], image |-> Absent,
          prompt |-> Absent, num_inference_steps |-> NoValue,
          true_cfg_scale |-> NoValue, seed |-> NoValue,
          num_images_per_prompt |-> NoValue]

\* ------------------------------------------------------------------- codec
\* decode_image: base64.b64decode, Image.open, convert("RGB"); raises on text
\* that is not base64 of an image.
decode_image(b) ==
    IF b = GoodBlob THEN [raised |-> FALSE, img |-> "RGB"]
    ELSE [raised |-> TRUE, img |-> "none"]

\* encode_image: PNG bytes of the image, base64-encoded
encode_image(img) == [b64png |-> img]

\* --------------------------------------------------------------- coercions
Trunc2(h) == IF h >= 0 THEN 2 * (h \div 2) ELSE -(2 * ((-h) \div 2))

\* int(job_input.get(key, default)): the half-value of the integer, or a raise
IntOf(raw, default) ==
    CASE raw.kind = "absent" -> [raised |-> FALSE, v2 |-> 2 * default]
      [] raw.kind = "number" -> [raised |-> FALSE, v2 |-> Trunc2(raw.v2)]
      [] OTHER -> [raised |-> TRUE, v2 |-> 0]

\* float(job_input.get(key, default))
FloatOf(raw, default) ==
    CASE raw.kind = "absent" -> [raised |-> FALSE, v2 |-> 2 * default]
      [] raw.kind = "number" -> [raised |-> FALSE, v2 |-> raw.v2]
      [] OTHER -> [raised |-> TRUE, v2 |-> 0]

\* Python truthiness of job_input.get("prompt"): None and "" are falsy
PromptFalsy(prompt) == prompt \in {Absent, ""}

\* ---------------------------------------------------------- handler's ends
MalformedInputMsg == "'images' must be a non-empty list of base64 strings."
MissingInputMsg == "Provide 'image' (base64 string) or 'images' (list of base64 strings)."
MissingPromptMsg == "'prompt' is required."

NoResult == [kind |-> "none", msg |-> "", images |-> <<>>, exc |-> ""]
ErrorDict(m) == [kind |-> "error", msg |-> m, images |-> <<>>, exc |-> ""]
ImageDict(b) == [kind |-> "image", msg |-> "", images |-> <<b>>, exc |-> ""]
ImagesDict(bs) == [kind |-> "images", msg |-> "", images |-> bs, exc |-> ""]
\* an exception that leaves handler(): nothing in handler catches
Raised(e) == [kind |-> "raised", msg |-> "", images |-> <<>>, exc |-> e]

\* ------------------------------------------------------- random generator
\* torch's default generator: seeded from entropy at start-up, reseeded by
\* torch.manual_seed, advanced by every sampling that is given no generator
\* of its own or is given this very generator.
EntropyRng == [seeded |-> FALSE, seed2 |-> 0, draws |-> 0]
manual_seed(seed2) == [seeded |-> TRUE, seed2 |-> seed2, draws |-> 0]
Advance(g) == [g EXCEPT !.draws = g.draws + 1]

\* generator = torch.manual_seed(seed) if seed >= 0 else None
UsesSeed(seed2) == seed2 >= 0
RngAfterSeeding(g, seed2) == IF UsesSeed(seed2) THEN manual_seed(seed2) ELSE g

\* ------------------------------------------------------------------ engine
NoCall == [made |-> FALSE, image_count |-> 0, image_is_list |-> FALSE,
           prompt |-> "", negative_prompt |-> "", steps2 |-> 0, cfg2 |-> 0,
           guidance2 |-> 0, generator_given |-> FALSE, num2 |-> 0,
           noise |-> EntropyRng, outcome |-> "none"]

\* what the pipeline may do with a call: return its images, or raise before
\* or after it has sampled its noise
EngineOutcomes == {"ok", "fault_before_sampling", "fault_after_sampling"}

\* result.images: num_images_per_prompt images made from the noise sampled
EngineImages(c) ==
    [i \in 1..(c.num2 \div 2) |-> [noise |-> c.noise, idx |-> i]]

\* ------------------------------------------------------ handler, by stages
\* lines 81-91: the input images
\* a slip: the second branch taken without looking for the key
HasImageKeyAlways(p) == TRUE

HasImagesKey(p) == p.images.kind # "absent"
HasImageKey(p) == p.image # Absent

ParseImages(p) ==
    IF HasImagesKey(p) THEN
        IF p.images.kind # "list" \/ Len(p.images.items) = 0
        THEN [tag |-> "error", msg |-> MalformedInputMsg, count |-> 0,
              multi_input |-> FALSE]
        ELSE IF \E i \in 1..Len(p.images.items) :
                    decode_image(p.images.items[i]).raised
        THEN [tag |-> "raise", msg |-> "", count |-> 0, multi_input |-> FALSE]
        ELSE [tag |-> "ok", msg |-> "", count |-> Len(p.images.items),
              multi_input |-> TRUE]
    ELSE IF HasImageKey(p) THEN
        IF decode_image(p.image).raised
        THEN [tag |-> "raise", msg |-> "", count |-> 0, multi_input |-> FALSE]
        ELSE [tag |-> "ok", msg |-> "", count |-> 1, multi_input |-> FALSE]
    ELSE [tag |-> "error", msg |-> MissingInputMsg, count |-> 0,
          multi_input |-> FALSE]

\* a slip: the prompt is read and never tested
PromptNeverRejected(p) == FALSE

\* lines 94-96: the prompt
PromptRejected(p) == PromptFalsy(p.prompt)

\* lines 99-102: the first coercion that raises, in the order of the code
CoercionRaises(p) ==
    \/ IntOf(p.num_inference_steps, DefaultSteps).raised
    \/ FloatOf(p.true_cfg_scale, DefaultCfgScale).raised
    \/ IntOf(p.seed, DefaultSeed).raised
    \/ IntOf(p.num_images_per_prompt, DefaultNumImages).raised

\* lines 109-118: the arguments of pipeline(...)
PipelineCall(p, imgs, g, eng) ==
    [made |-> TRUE,
     outcome |-> eng,
     image_count |-> imgs.count,
     image_is_list |-> imgs.count > 1,
     prompt |-> p.prompt,
     negative_prompt |-> " ",
     steps2 |-> IntOf(p.num_inference_steps, DefaultSteps).v2,
     cfg2 |-> FloatOf(p.true_cfg_scale, DefaultCfgScale).v2,
     guidance2 |-> 2,
     generator_given |-> UsesSeed(IntOf(p.seed, DefaultSeed).v2),
     num2 |-> IntOf(p.num_images_per_prompt, DefaultNumImages).v2,
     noise |-> g]

\* a slip: the shape chosen from the count alone
OutputShapeByCount(num2, multi_input, encoded) ==
    IF num2 = 2 THEN ImageDict(encoded[1]) ELSE ImagesDict(encoded)

\* lines 121-125: the returned dict
OutputShape(num2, multi_input, encoded) ==
    IF num2 = 2 /\ ~multi_input THEN ImageDict(encoded[1])
    ELSE ImagesDict(encoded)

EncodeAll(images) == [i \in 1..Len(images) |-> encode_image(images[i])]

\* handler(job) as a whole: its end, its pipeline call and the generator it
\* leaves behind, from payload p, generator g and the engine's outcome eng.
HandlerRun(p, g, eng) ==
    LET imgs == ParseImages(p) IN
    IF imgs.tag = "error"
    THEN [result |-> ErrorDict(imgs.msg), call |-> NoCall, rng |-> g]
    ELSE IF imgs.tag = "raise"
    THEN [result |-> Raised("decode"), call |-> NoCall, rng |-> g]
    ELSE IF PromptRejected(p)
    THEN [result |-> ErrorDict(MissingPromptMsg), call |-> NoCall, rng |-> g]
    ELSE IF CoercionRaises(p)
    THEN [result |-> Raised("ValueError"), call |-> NoCall, rng |-> g]
    ELSE
        LET g1 == RngAfterSeeding(g, IntOf(p.seed, DefaultSeed).v2)
            c == PipelineCall(p, imgs, g1, eng)
        IN  CASE eng = "fault_before_sampling" ->
                    [result |-> Raised("engine"), call |-> c, rng |-> g1]
              [] eng = "fault_after_sampling" ->
                    [result |-> Raised("engine"), call |-> c,
                     rng |-> Advance(g1)]
              [] OTHER ->
                    [result |-> OutputShape(c.num2, imgs.multi_input,
                                            EncodeAll(EngineImages(c))),
                     call |-> c, rng |-> Advance(g1)]

\* ------------------------------------------------------------ worker steps
\* handler(job): one job, start to end
handler ==
    /\ wpc = "idle"
    /\ rng.draws < MaxDraws
    /\ \E p \in Payloads, eng \in EngineOutcomes :
          LET r == HandlerRun(p, rng, eng) IN
          /\ job' = p
          /\ result' = r.result
          /\ call' = r.call
          /\ rng' = r.rng
    /\ wpc' = "done"
    /\ UNCHANGED cvars

\* runpod.serverless.start: the runtime reports the job's end and waits for
\* the next job; the process and its generator live on.
start_next ==
    /\ wpc = "done"
    /\ wpc' = "idle"
    /\ job' = NoJob
    /\ result' = NoResult
    /\ call' = NoCall
    /\ UNCHANGED rng
    /\ UNCHANGED cvars

\* ------------------------------------------------------------------ client
Terminal == {"COMPLETED", "FAILED"}
OutputShapes == {"image", "images", "error"}
SystemExit1 == "SystemExit(1)"

\* a slip: the deadline tested one sleep ahead
LoopGuardEarly(t, t0, limit) == t - t0 + SleepSeconds < limit

\* while time.time() - start < timeout
LoopGuard(t, t0, limit) == t - t0 < limit

\* a slip: only QUEUED and RUNNING are waited on, any other status gives up
PollOutcomeKnownOnly(s) ==
    CASE s = "COMPLETED" -> "return"
      [] s \in {"QUEUED", "RUNNING"} -> "sleep"
      [] OTHER -> "exit"

\* a slip: FAILED is not told from a status still under way
PollOutcomeNoFailed(s) == IF s = "COMPLETED" THEN "return" ELSE "sleep"

\* lines 44-52: what one loop round does with the status it read
PollOutcome(s) ==
    CASE s = "COMPLETED" -> "return"
      [] s = "FAILED" -> "exit"
      [] OTHER -> "sleep"

\* a slip: a client that starts over when the poll times out
AfterTimeoutRetry == "main"

\* lines 53-54: where poll_status goes when its loop ends
AfterTimeout == "exited"

\* lines 59-72: what save_result does with the output
SaveOutcome(out) == IF out \in {"image", "images"} THEN "saved" ELSE "exit"

\* lines 103-104: result = submit_job(...); job_id = result["id"]
submit_job ==
    /\ cpc = "main"
    /\ submits' = submits + 1
    /\ jobs' = jobs + 1
    /\ status' = "QUEUED"
    /\ cpc' = "submitted"
    /\ printed' = "Job ID"
    /\ UNCHANGED <<output, timeout, now, start, checks, lastStatus, ret, exit>>
    /\ UNCHANGED wvars

\* lines 30-31: requests.post raises (the connection breaks: the queue may or
\* may not have taken the job), or raise_for_status raises (no job is made);
\* main catches nothing.
submit_job_raises ==
    /\ cpc = "main"
    /\ submits' = submits + 1
    /\ \E e \in {"ConnectionError", "HTTPError"}, made \in BOOLEAN :
          /\ exit' = e
          /\ jobs' = IF e = "ConnectionError" /\ made THEN jobs + 1 ELSE jobs
          /\ status' = IF e = "ConnectionError" /\ made THEN "QUEUED" ELSE status
    /\ cpc' = "crashed"
    /\ printed' = "Traceback"
    /\ UNCHANGED <<output, timeout, now, start, checks, lastStatus, ret>>
    /\ UNCHANGED wvars

\* lines 36-39: poll_status begins
poll_status_begin ==
    /\ cpc = "submitted"
    /\ start' = now
    /\ cpc' = "polling"
    /\ printed' = "Waiting for result"
    /\ UNCHANGED <<submits, jobs, status, output, timeout, now, checks,
                   lastStatus, ret, exit>>
    /\ UNCHANGED wvars

\* lines 40-52: one round of the loop; the request takes d seconds and its
\* answer carries the job's status or no "status" key at all
poll_round ==
    /\ cpc = "polling"
    /\ LoopGuard(now, start, timeout)
    /\ \E d \in 0..MaxLatency, s \in {status, Absent} :
          /\ lastStatus' = s
          /\ checks' = checks + 1
          /\ CASE PollOutcome(s) = "return" ->
                    /\ ret' = output
                    /\ cpc' = "returned"
                    /\ printed' = " done!"
                    /\ now' = now + d
                    /\ UNCHANGED exit
               [] PollOutcome(s) = "exit" ->
                    /\ exit' = SystemExit1
                    /\ cpc' = "exited"
                    /\ printed' = " FAILED"
                    /\ now' = now + d
                    /\ UNCHANGED ret
               [] OTHER ->
                    /\ now' = now + d + SleepSeconds
                    /\ printed' = "."
                    /\ UNCHANGED <<cpc, ret, exit>>
    /\ UNCHANGED <<submits, jobs, status, output, timeout, start>>
    /\ UNCHANGED wvars

\* line 41: requests.get raises; poll_status catches nothing
poll_get_raises ==
    /\ cpc = "polling"
    /\ LoopGuard(now, start, timeout)
    /\ exit' = "ConnectionError"
    /\ cpc' = "crashed"
    /\ printed' = "Traceback"
    /\ UNCHANGED <<submits, jobs, status, output, timeout, now, start, checks,
                   lastStatus, ret>>
    /\ UNCHANGED wvars

\* lines 53-54: the loop ends on the clock
poll_timed_out ==
    /\ cpc = "polling"
    /\ ~LoopGuard(now, start, timeout)
    /\ printed' = "Timed out."
    /\ exit' = SystemExit1
    /\ cpc' = AfterTimeout
    /\ UNCHANGED <<submits, jobs, status, output, timeout, now, start, checks,
                   lastStatus, ret>>
    /\ UNCHANGED wvars

\* line 108 and lines 57-72
save_result ==
    /\ cpc = "returned"
    /\ IF SaveOutcome(ret) = "saved"
       THEN /\ cpc' = "done"
            /\ printed' = "Done!"
            /\ UNCHANGED exit
       ELSE /\ cpc' = "exited"
            /\ printed' = "Error from worker"
            /\ exit' = SystemExit1
    /\ UNCHANGED <<submits, jobs, status, output, timeout, now, start, checks,
                   lastStatus, ret>>
    /\ UNCHANGED wvars

\* ------------------------------------------------------- the queue's side
\* a worker claims the job
job_claimed ==
    /\ status = "QUEUED"
    /\ status' = "RUNNING"
    /\ UNCHANGED <<cpc, submits, jobs, output, timeout, now, start, checks,
                   lastStatus, ret, exit, printed>>
    /\ UNCHANGED wvars

\* the job ends with the handler's returned dict as its output
job_completed ==
    /\ status = "RUNNING"
    /\ status' = "COMPLETED"
    /\ \E o \in OutputShapes : output' = o
    /\ UNCHANGED <<cpc, submits, jobs, timeout, now, start, checks,
                   lastStatus, ret, exit, printed>>
    /\ UNCHANGED wvars

\* the job ends in failure, carrying an error
job_failed ==
    /\ status = "RUNNING"
    /\ status' = "FAILED"
    /\ output' = "error"
    /\ UNCHANGED <<cpc, submits, jobs, timeout, now, start, checks,
                   lastStatus, ret, exit, printed>>
    /\ UNCHANGED wvars

\* the job is cancelled on the queue
job_cancelled ==
    /\ status \in {"QUEUED", "RUNNING"}
    /\ status' = "CANCELLED"
    /\ UNCHANGED <<cpc, submits, jobs, output, timeout, now, start, checks,
                   lastStatus, ret, exit, printed>>
    /\ UNCHANGED wvars

WorkerIdle ==
    /\ wpc = "idle" /\ job = NoJob /\ result = NoResult /\ call = NoCall
    /\ rng = EntropyRng

\* one run of the client; poll_status is given its default timeout, as main
\* gives it, or a short one of 1..MaxTimeout seconds
ClientInit ==
    /\ WorkerIdle
    /\ cpc = "main" /\ submits = 0 /\ jobs = 0 /\ status = "NONE"
    /\ output = "none" /\ now = 0 /\ start = 0 /\ checks = 0
    /\ lastStatus = "NONE" /\ ret = "none" /\ exit = "" /\ printed = ""
    /\ timeout \in (1..MaxTimeout) \cup {DefaultTimeout}

ClientNext ==
    \/ submit_job \/ submit_job_raises \/ poll_status_begin \/ poll_round
    \/ poll_get_raises \/ poll_timed_out \/ save_result
    \/ job_claimed \/ job_completed \/ job_failed \/ job_cancelled

ClientSpec == ClientInit /\ [][ClientNext]_vars

ClientIdle ==
    /\ cpc = "main" /\ submits = 0 /\ jobs = 0 /\ status = "NONE"
    /\ output = "none" /\ timeout = 1 /\ now = 0 /\ start = 0 /\ checks = 0
    /\ lastStatus = "NONE" /\ ret = "none" /\ exit = "" /\ printed = ""

Init ==
    /\ WorkerIdle
    /\ ClientIdle

Next == handler \/ start_next

Spec == Init /\ [][Next]_vars

\* ================================================================= claims
\* the prompt with its leading and trailing blanks removed
Trim(prompt) == IF prompt = "  " THEN "" ELSE prompt

NumImages2(p) == IntOf(p.num_images_per_prompt, DefaultNumImages).v2

\* C1: every job ends with a returned {image}, {images} or {error}; when an
\* input image does not decode, or a numeric field cannot be coerced, the
\* handler returns an error dict and nothing is raised past it.
C1_ValidationAndDecodeFailuresReturnError ==
    (wpc = "done" /\ ~call.made) =>
        /\ result.kind \in {"image", "images", "error"}
        /\ (ParseImages(job).tag = "raise" => result.kind = "error")
        /\ (ParseImages(job).tag = "ok" /\ ~PromptRejected(job)
                /\ CoercionRaises(job) => result.kind = "error")

\* C2: when the pipeline raises, the handler returns an error dict, never a
\* list of images, and the fault does not leave the handler.
C2_EngineFaultReturnsError ==
    (wpc = "done" /\ call.made /\ call.outcome # "ok") =>
        /\ result.kind = "error"
        /\ result.images = <<>>

\* C3: a job that succeeds returns {"image": blob} exactly when its images
\* came from the single-image field and num_images is 1, and {"images":
\* [...]} otherwise (multi-image field used, or num_images > 1).
C3_ShapeMirrorsRequest ==
    (wpc = "done" /\ result.kind \in {"image", "images"}) =>
        /\ result.kind = "image" <=>
              (~HasImagesKey(job) /\ HasImageKey(job) /\ NumImages2(job) = 2)
        /\ Len(result.images) = NumImages2(job) \div 2

C3_Witness ==
    /\ wpc = "done"
    /\ result.kind = "image"
    /\ job.num_images_per_prompt = Num2(3)
    /\ job.image = GoodBlob

\* C4: a payload whose prompt is absent or empty after trimming is rejected
\* with the prompt-required error, and the pipeline is not called (stated
\* here for the payloads whose images were accepted and decoded).
C4_BlankPromptRejected ==
    (wpc = "done" /\ ParseImages(job).tag = "ok"
        /\ (job.prompt = Absent \/ Trim(job.prompt) = "")) =>
        /\ result = ErrorDict(MissingPromptMsg)
        /\ ~call.made

\* C5: a payload with neither "image" nor "images" is answered with the
\* missing-input error dict, whatever its other fields are.
C5_MissingInputRejected ==
    (wpc = "done" /\ job.images.kind = "absent" /\ job.image = Absent) =>
        /\ result = ErrorDict(MissingInputMsg)
        /\ ~call.made

C5_Witness ==
    /\ wpc = "done"
    /\ job.images.kind = "absent" /\ job.image = Absent
    /\ job.prompt = Absent
    /\ job.seed = Text
    /\ result = ErrorDict(MissingInputMsg)

\* C9: a job without a seed (seed = -1, no generator given) draws its noise
\* from a generator that no earlier job's seed has set.
C9_SeedlessJobUnaffectedByEarlierSeed ==
    (call.made /\ ~call.generator_given) => ~call.noise.seeded

\* C10 as stated: the pipeline is called only with at least one image, a
\* non-empty prompt, steps an integer >= 1, cfg_scale > 0 and num_images a
\* positive integer.
C10_EngineArgsInRange ==
    call.made =>
        /\ call.image_count >= 1
        /\ call.prompt \notin {Absent, ""}
        /\ call.steps2 % 2 = 0 /\ call.steps2 >= 2
        /\ call.cfg2 > 0
        /\ call.num2 % 2 = 0 /\ call.num2 >= 2

\* C10 amended: the pipeline is called only with at least one decoded image,
\* a non-empty prompt, and steps, seed and num_images coerced to integers and
\* cfg_scale to a float; their ranges are not checked.
C10_EngineArgsCoerced ==
    call.made =>
        /\ call.image_count >= 1
        /\ ParseImages(job).tag = "ok"
        /\ call.prompt \notin {Absent, ""}
        /\ ~CoercionRaises(job)
        /\ call.steps2 % 2 = 0
        /\ call.num2 % 2 = 0
        /\ call.generator_given => call.noise.seed2 % 2 = 0

C10_Witness ==
    /\ call.made
    /\ call.steps2 = 0
    /\ call.cfg2 = 0
    /\ job.num_images_per_prompt = Num2(3)

\* ---------------------------------------------------------- client claims
TimedOut == cpc = "exited" /\ printed = "Timed out."

C7_TerminalStatusReturnsOutput ==
    lastStatus \in Terminal =>
        /\ cpc # "polling"
        /\ ret = output

\* C7 amended: poll stops at the first terminal status; on COMPLETED it
\* returns the job's output to its caller, on FAILED it prints the status
\* answer and raises SystemExit(1), returning nothing.
C7_CompletedReturnsFailedExits ==
    /\ lastStatus \in Terminal => cpc # "polling"
    /\ lastStatus = "COMPLETED" => ret = output /\ ret \in OutputShapes
    /\ lastStatus = "FAILED" =>
          cpc = "exited" /\ exit = SystemExit1 /\ ret = "none"
    /\ ret # "none" => lastStatus = "COMPLETED"

C7_Witness ==
    /\ lastStatus = "FAILED"
    /\ cpc = "exited"
    /\ output = "error"
    /\ checks >= 2

\* C8: a client run submits at most once and makes at most one job; after a
\* failed submit or a timed-out poll nothing more is submitted.
C8_AtMostOneSubmit ==
    /\ submits <= 1
    /\ jobs <= 1
    /\ cpc \in {"crashed", "exited", "done"} => ~ENABLED submit_job

C8_Witness ==
    /\ TimedOut
    /\ submits = 1
    /\ jobs = 1

\* C11: every status other than COMPLETED and FAILED (an absent status and a
\* status such as CANCELLED included) is waited on: after reading one, poll
\* has returned nothing, has slept after every check so far, and the only
\* end it has come to on its own is the time-out.
C11_OtherStatusesAreWaitedOn ==
    (checks >= 1 /\ lastStatus \notin Terminal) =>
        /\ ret = "none"
        /\ cpc \notin {"returned", "done"}
        /\ (cpc = "exited" \/ exit = SystemExit1) => TimedOut
        /\ now - start >= checks * SleepSeconds
        /\ (cpc = "polling" /\ LoopGuard(now, start, timeout)) =>
              ENABLED poll_round

C11_Witness ==
    /\ TimedOut
    /\ status = "CANCELLED"
    /\ lastStatus = Absent
    /\ checks >= 3

====
